---- MODULE Spec2Model ----
(***************************************************************************)
(* The in-memory job engine of api-base: the job store and queue           *)
(* (app/jobs/manager.py), the worker loop (app/core/worker.py), the        *)
(* handlers (app/handlers/*.py), the retention sweeper                     *)
(* (app/jobs/cleanup.py), the POST /jobs endpoint with the registry it     *)
(* consults (app/api/v1/endpoints/jobs.py, app/jobs/registry.py) and the   *)
(* shutdown of the pool (app/main.py).                                     *)
(*                                                                         *)
(* Tasks are asyncio coroutines on one event loop: a task runs             *)
(* uninterrupted between two awaits that really suspend (queue.get on an   *)
(* empty queue, asyncio.sleep).  One action of the model is one such       *)
(* uninterrupted run.                                                      *)
(***************************************************************************)
EXTENDS Naturals, Integers, Sequences, FiniteSets, TLC

\* ---------------------------------------------------------------- bounds
MaxJobs == 2          \* submissions in one run
NumWorkers == 2       \* worker tasks started by start_workers
MaxTime == 2          \* the clock runs 0..MaxTime
MaxRetention == 1     \* configured retention is one of 0..MaxRetention
MaxRequests == 2      \* requests whose idempotency key is resolved, in one run
MaxCalls == 2         \* direct calls of the JobManager's setters, in one run

Workers == 1..NumWorkers

\* Python's None, and a value that is set.
None == <<>>
Some(v) == <<v>>

\* JobStatus (app/jobs/schemas.py)
PENDING == "pending"
RUNNING == "running"
COMPLETED == "completed"
FAILED == "failed"

VARIABLES
  jobs,               \* JobManager._jobs: job id -> Job
  queue,              \* JobManager._queue: FIFO of job ids
  now,                \* datetime.now()
  retention_seconds,  \* settings.job_retention_seconds
  serving,            \* the application is between startup and shutdown (lifespan)
  wpc,                \* per worker: "unstarted" (no task), "get" (awaiting queue.get), "sleep" (inside
                      \* a handler's sleep), "cancelled" (ended by stop_workers), "exited" (ended by
                      \* an exception)
  wjob,               \* per worker: the handler call it is inside (job id, type, payload, segments run), or None
  idCounter,          \* how many ids create_id has produced
  submitLog,          \* history: every submission's key and returned id
  dequeueLog,         \* history: every queue.get that returned, with the worker
  handlerLog,         \* history: every handler invocation (job id)
  evicted,            \* history: ids the sweeper removed
  lastOp,             \* history: the operation that produced this state
  handlers,           \* app.jobs.handlers.HANDLERS: job type -> handler function
  keyLog,             \* history: the idempotency key the endpoint chose, per request
  job_workers,        \* settings.job_workers
  cleanup_task,       \* lifespan's cleanup_task: "none" (None), "sleep" (cleanup_loop awaiting its
                      \* interval), "cancelled" (ended by stop_cleanup_task)
  callLog             \* history: the calls made directly on the JobManager's setters

vars == <<jobs, queue, now, retention_seconds, serving, wpc, wjob, idCounter,
          submitLog, dequeueLog, handlerLog, evicted, lastOp, handlers, keyLog,
          job_workers, cleanup_task, callLog>>

\* ------------------------------------------------------------- requests
\* Idempotency keys a request may carry (None: no key).
Keys == {None, Some("k1")}

\* Registered at import of app.handlers (app/handlers/__init__.py).
HANDLERS == {"data_processing", "echo", "long_running"}

\* Python's truth value of an optional string: None and "" are false.
Truthy(x) == x # None /\ x # Some("")

\* idempotency_key or job_request.idempotency_key
final_idempotency_key(header, body) == IF Truthy(header) THEN header ELSE body

\* if not is_new and final_idempotency_key: the response gets the header
\* X-Idempotent-Replay.
x_idempotent_replay(is_new, key) == ~is_new /\ Truthy(key)

\* The registry the endpoint consults (app/jobs/registry.py): the handler
\* modules register with app.jobs.register_handler, which fills HANDLERS;
\* nothing calls this module's register_handler, so it stays empty.
registry == {}

can_handle(job_type) == job_type \in registry

\* app.jobs.list_handlers, the "available_job_types" of GET /jobs.
list_handlers == HANDLERS

\* The discriminated union JobRequest: the types of the request classes the
\* handler modules define (DataProcessingRequest, EchoRequest,
\* LongRunningRequest).  A body of another type does not validate.
JobRequest == {"data_processing", "echo", "long_running"}

\* The types submitted here: two registered ones and one that is not.
JobTypes == {"echo", "long_running", "unregistered_type"}

\* Payloads a submission may carry, by type.  An echo payload without a
\* message does not validate as an EchoRequest.
PayloadsOf(job_type) ==
  CASE job_type = "echo" ->
         {[message |-> Some("hi"), metadata |-> <<>>],
          [message |-> None, metadata |-> <<>>]}
    [] job_type = "long_running" ->
         {[duration |-> 10, stages |-> 2]}
    [] OTHER -> {[x |-> 0]}

\* ----------------------------------------------------------------- Job
\* Job.__init__.  status_log is history, not a field of the class: the
\* values status has taken, in order (update_job_status appends to it).
Job(job_id, job_type, payload) ==
  [id |-> job_id, type |-> job_type, payload |-> payload,
   status |-> PENDING, created_at |-> now,
   started_at |-> None, completed_at |-> None,
   intermediate_results |-> <<>>, final_result |-> None, error |-> None,
   status_log |-> <<PENDING>>]

\* Mutant of create_id: the id is derived from the number of stored jobs.
create_id_by_count == Cardinality(DOMAIN jobs) + 1

\* Mutant of create_id: the id of an evicted job is handed out again.
create_id_recycled ==
  IF evicted # {} THEN CHOOSE id \in evicted : TRUE ELSE idCounter + 1

\* uuid4 never repeats a value: the next id is one no earlier call returned.
create_id == idCounter + 1

get_job(js, job_id) ==
  IF job_id \in DOMAIN js THEN Some(js[job_id]) ELSE None

\* Job.to_response: the fields of the job, without its payload.
to_response(job) ==
  [id |-> job.id, type |-> job.type, status |-> job.status,
   created_at |-> job.created_at, started_at |-> job.started_at,
   completed_at |-> job.completed_at,
   intermediate_results |->
     [i \in 1..Len(job.intermediate_results) |->
        [timestamp |-> job.intermediate_results[i].timestamp,
         data |-> job.intermediate_results[i].data]],
   final_result |-> job.final_result, error |-> job.error]

get_job_response(js, job_id) ==
  IF get_job(js, job_id) = None THEN None
  ELSE Some(to_response(get_job(js, job_id)[1]))

\* Mutant of get_job_status: an id the sweeper removed is answered 410.
get_job_status_gone(js, job_id) ==
  IF get_job_response(js, job_id) # None
    THEN [status |-> 200, body |-> get_job_response(js, job_id)[1]]
  ELSE IF job_id \in evicted
    THEN [status |-> 410, detail |-> [text |-> "Job gone", job_id |-> job_id]]
  ELSE [status |-> 404, detail |-> [text |-> "Job not found", job_id |-> job_id]]

\* GET /jobs/{job_id}: the response, 404 "Job {job_id} not found" when the
\* store has no such job.
get_job_status(js, job_id) ==
  IF get_job_response(js, job_id) = None
    THEN [status |-> 404, detail |-> [text |-> "Job not found", job_id |-> job_id]]
  ELSE [status |-> 200, body |-> get_job_response(js, job_id)[1]]

\* self._jobs[job_id] = job
store_job(js, job) ==
  [i \in DOMAIN js \cup {job.id} |-> IF i = job.id THEN job ELSE js[i]]

\* Mutant of update_job_status: a terminal status stamps started_at too.
update_job_status_restamp(js, job_id, status) ==
  IF job_id \notin DOMAIN js THEN js
  ELSE LET job == js[job_id]
           j1 == [job EXCEPT !.status = status,
                             !.status_log = IF @[Len(@)] = status THEN @
                                            ELSE Append(@, status)]
           j2 == IF status = RUNNING /\ job.started_at = None
                   THEN [j1 EXCEPT !.started_at = Some(now)]
                 ELSE IF status \in {COMPLETED, FAILED}
                   THEN [j1 EXCEPT !.completed_at = Some(now), !.started_at = Some(now)]
                 ELSE j1
       IN [js EXCEPT ![job_id] = j2]

update_job_status(js, job_id, status) ==
  IF job_id \notin DOMAIN js THEN js
  ELSE LET job == js[job_id]
           j1 == [job EXCEPT !.status = status,
                             !.status_log = IF @[Len(@)] = status THEN @
                                            ELSE Append(@, status)]
           j2 == IF status = RUNNING /\ job.started_at = None
                   THEN [j1 EXCEPT !.started_at = Some(now)]
                 ELSE IF status \in {COMPLETED, FAILED}
                   THEN [j1 EXCEPT !.completed_at = Some(now)]
                 ELSE j1
       IN [js EXCEPT ![job_id] = j2]

\* Mutant of set_job_result: a result that is set is kept.
set_job_result_first_wins(js, job_id, result) ==
  IF job_id \notin DOMAIN js \/ js[job_id].final_result # None THEN js
  ELSE [js EXCEPT ![job_id].final_result = Some(result)]

set_job_result(js, job_id, result) ==
  IF job_id \notin DOMAIN js THEN js
  ELSE [js EXCEPT ![job_id].final_result = Some(result)]

\* Mutant of set_job_error: an unknown id gets a record that holds the
\* error.
set_job_error_upsert(js, job_id, error) ==
  [i \in DOMAIN js \cup {job_id} |->
     IF i # job_id THEN js[i]
     ELSE IF i \in DOMAIN js THEN [js[i] EXCEPT !.error = Some(error)]
     ELSE [id |-> job_id, error |-> Some(error)]]

set_job_error(js, job_id, error) ==
  IF job_id \notin DOMAIN js THEN js
  ELSE [js EXCEPT ![job_id].error = Some(error)]

\* Mutant of add_intermediate_result: the entry is appended to every job.
add_intermediate_result_all(js, job_id, data) ==
  [i \in DOMAIN js |->
     [js[i] EXCEPT !.intermediate_results =
        Append(@, [timestamp |-> now, data |-> data, written_in |-> js[i].status])]]

\* Mutant of add_intermediate_result: the newest entry comes first.
add_intermediate_result_prepend(js, job_id, data) ==
  IF job_id \notin DOMAIN js THEN js
  ELSE [js EXCEPT ![job_id].intermediate_results =
            <<[timestamp |-> now, data |-> data, written_in |-> js[job_id].status]>> \o @]

\* An entry is a timestamp and the data; written_in is history: the status
\* the job had when the entry was appended.
add_intermediate_result(js, job_id, data) ==
  IF job_id \notin DOMAIN js THEN js
  ELSE [js EXCEPT ![job_id].intermediate_results =
            Append(@, [timestamp |-> now, data |-> data, written_in |-> js[job_id].status])]

get_queue_size(q) == Len(q)

get_job_count(js) == Cardinality(DOMAIN js)

get_job_count_by_status(js, status) ==
  Cardinality({job_id \in DOMAIN js : js[job_id].status = status})

\* ------------------------------------------------------------- cleanup
cutoff_time(retention) == now - retention

\* Mutant of jobs_to_remove: a Pending job created before the cutoff is
\* removed like a terminal one completed before it.
jobs_to_remove_pending(js, retention) ==
  {job_id \in DOMAIN js :
     \/ /\ js[job_id].status \in {COMPLETED, FAILED}
        /\ js[job_id].completed_at # None
        /\ js[job_id].completed_at[1] < cutoff_time(retention)
     \/ /\ js[job_id].status = PENDING
        /\ js[job_id].created_at < cutoff_time(retention)}

\* Mutant of jobs_to_remove: the cutoff itself counts as old (<= for <).
jobs_to_remove_inclusive(js, retention) ==
  {job_id \in DOMAIN js :
     /\ js[job_id].status \in {COMPLETED, FAILED}
     /\ js[job_id].completed_at # None
     /\ js[job_id].completed_at[1] <= cutoff_time(retention)}

\* Mutant of jobs_to_remove: age is taken from created_at, whatever the status.
jobs_to_remove_by_age(js, retention) ==
  {job_id \in DOMAIN js : js[job_id].created_at < cutoff_time(retention)}

\* Mutant of jobs_to_remove: only Completed jobs are removed, Failed ones
\* are kept.
jobs_to_remove_completed(js, retention) ==
  {job_id \in DOMAIN js :
     /\ js[job_id].status = COMPLETED
     /\ js[job_id].completed_at # None
     /\ js[job_id].completed_at[1] < cutoff_time(retention)}

jobs_to_remove(js, retention) ==
  {job_id \in DOMAIN js :
     /\ js[job_id].status \in {COMPLETED, FAILED}
     /\ js[job_id].completed_at # None
     /\ js[job_id].completed_at[1] < cutoff_time(retention)}

\* Mutant of cleanup_old_jobs: the jobs that stay are rebuilt without their
\* intermediate results.
cleanup_old_jobs_rebuild(js, retention) ==
  [job_id \in DOMAIN js \ jobs_to_remove(js, retention) |->
     [js[job_id] EXCEPT !.intermediate_results = <<>>]]

\* Mutant of cleanup_old_jobs: one pass deletes one of the jobs to remove
\* and leaves the others to the next pass.
cleanup_old_jobs_one(js, retention) ==
  LET gone == jobs_to_remove(js, retention)
      first == IF gone = {} THEN {}
               ELSE {CHOOSE job_id \in gone : \A other \in gone : job_id <= other}
  IN [job_id \in DOMAIN js \ first |-> js[job_id]]

cleanup_old_jobs(js, retention) ==
  [job_id \in DOMAIN js \ jobs_to_remove(js, retention) |-> js[job_id]]

\* ------------------------------------------------------------ handlers
\* handlers.register_handler(job_type)(func): the registry after the
\* decorator ran, and what it raised (nothing: the entry is assigned).
register_handler(reg, job_type, func) ==
  [handlers |-> [t \in DOMAIN reg \cup {job_type} |->
                   IF t = job_type THEN func ELSE reg[t]],
   raised |-> None]

\* HANDLERS after the import of app.handlers: its three modules register
\* their handler, in the order of the import.
Imported ==
  LET r0 == [t \in {} |-> ""]
      r1 == register_handler(r0, "data_processing", "data_processing_handler").handlers
      r2 == register_handler(r1, "echo", "echo_handler").handlers
  IN register_handler(r2, "long_running", "long_running_handler").handlers

get_handler(job_type) ==
  IF job_type \in DOMAIN handlers THEN Some(handlers[job_type]) ELSE None

\* A handler's run, cut at its sleeps: `error` is the exception its
\* validation raises (None if it validates), segments[k] the results it
\* reports before its k-th sleep, `result` what it returns after the last.
Raises(kind, msg) ==
  [error |-> Some([kind |-> kind, msg |-> msg]), segments |-> <<>>, result |-> None]

\* Mutant of echo_handler: the result carries a fixed message and the
\* payload under another name.
echo_handler_fixed_message(payload) ==
  IF payload.message = None
    THEN Raises("ValidationError", "1 validation error for EchoRequest")
  ELSE [error |-> None,
        segments |-> << <<[status |-> "processing", message |-> "Echoing payload"]>> >>,
        result |-> [status |-> "success", echoed_payload |-> payload,
                    message |-> "Echo complete"]]

echo_handler(payload) ==
  IF payload.message = None
    THEN Raises("ValidationError", "1 validation error for EchoRequest")
  ELSE [error |-> None,
        segments |-> << <<[status |-> "processing", message |-> "Echoing payload"]>> >>,
        result |-> [status |-> "success", message |-> payload.message[1],
                    metadata |-> payload.metadata, echo_complete |-> TRUE]]

long_running_handler(payload) ==
  IF payload.stages < 1 \/ payload.duration < 0
    THEN Raises("ValidationError", "1 validation error for LongRunningRequest")
  ELSE [error |-> None,
        segments |-> [stage \in 1..payload.stages |->
                        <<[stage |-> stage, total_stages |-> payload.stages,
                           progress_percent |-> (stage * 100) \div payload.stages,
                           status |-> "running"]>>],
        result |-> [status |-> "success", duration |-> payload.duration,
                    stages_completed |-> payload.stages,
                    message |-> "Long-running job completed"]]

\* The registered handler of job_type, called on payload.
Handler(job_type, payload) ==
  CASE job_type = "echo" -> echo_handler(payload)
    [] OTHER -> long_running_handler(payload)

\* JobContext.add_result for each result of one segment, in order.
RECURSIVE add_results(_, _, _)
add_results(js, job_id, seg) ==
  IF seg = <<>> THEN js
  ELSE add_results(add_intermediate_result(js, job_id, Head(seg)), job_id, Tail(seg))

\* -------------------------------------------------------------- submit
\* Mutant of submit_job: the job is stored and its id is not enqueued.
submit_job_no_put(job_type, payload) ==
  LET job_id == create_id
      job == Job(job_id, job_type, payload)
  IN [job_id |-> job_id,
      jobs |-> store_job(jobs, job),
      queue |-> queue]

\* Mutant of submit_job: the id is enqueued and the job is not stored.
submit_job_no_store(job_type, payload) ==
  LET job_id == create_id
  IN [job_id |-> job_id,
      jobs |-> jobs,
      queue |-> Append(queue, job_id)]

\* Mutant of submit_job: the id is put on the queue twice.
submit_job_put_twice(job_type, payload) ==
  LET job_id == create_id
      job == Job(job_id, job_type, payload)
  IN [job_id |-> job_id,
      jobs |-> store_job(jobs, job),
      queue |-> Append(Append(queue, job_id), job_id)]

\* The mapping from idempotency keys to job ids that the JobManager holds:
\* __init__ creates _jobs and _queue and nothing else, and no method adds
\* an attribute, so in every state it has no entry.
idempotency_index == [key \in {} |-> 0]

\* JobManager.submit_job(job_type, payload): the id, the store and the
\* queue after the call.  It takes no idempotency key.
submit_job(job_type, payload) ==
  LET job_id == create_id
      job == Job(job_id, job_type, payload)
  IN [job_id |-> job_id,
      jobs |-> store_job(jobs, job),
      queue |-> Append(queue, job_id)]

\* -------------------------------------------------------------- worker
\* Mutant of get_next_job: the newest id is taken, not the oldest.
get_next_job_lifo(q) == [job_id |-> q[Len(q)], rest |-> SubSeq(q, 1, Len(q) - 1)]

\* asyncio.Queue.get on a non-empty queue: the item and what is left.
get_next_job(q) == [job_id |-> Head(q), rest |-> Tail(q)]

\* f"{type(e).__name__}: {str(e)}"
error_msg(e) == e.kind \o ": " \o e.msg

\* Mutant of except_Exception: the clause names ValueError only.
except_ValueError(kind) == kind = "ValueError"

\* Mutant of except_Exception: the clause names pydantic's ValidationError
\* only.
except_ValidationError(kind) == kind = "ValidationError"

\* Mutant of except_Exception: the clause catches every BaseException.
except_BaseException(kind) == TRUE

\* Exceptions that derive from Exception; `except Exception` catches these.
\* asyncio.CancelledError derives from BaseException only.
except_Exception(kind) == kind \in {"ValueError", "ValidationError"}

\* Mutant of job_failed: every job that is Running is failed with the error.
job_failed_all(js, job_id, e) ==
  [i \in DOMAIN js |->
     IF js[i].status = RUNNING
       THEN [js[i] EXCEPT !.status = FAILED, !.error = Some(error_msg(e)),
                          !.completed_at = Some(now),
                          !.status_log = Append(@, FAILED)]
     ELSE js[i]]

\* Mutant of job_failed: the error is recorded and the job is made pending
\* again, for a retry.
job_failed_retry(js, job_id, e) ==
  update_job_status(set_job_error(js, job_id, error_msg(e)), job_id, PENDING)

\* Mutant of job_failed: the error is recorded and the status is not updated.
job_failed_no_status(js, job_id, e) ==
  set_job_error(js, job_id, error_msg(e))

\* process_job's except branch: the error is recorded, the job is failed.
job_failed(js, job_id, e) ==
  update_job_status(set_job_error(js, job_id, error_msg(e)), job_id, FAILED)

\* Mutant of job_completed: a closing entry is reported after the job was
\* completed.
job_completed_then_report(js, job_id, result) ==
  add_intermediate_result(
    update_job_status(set_job_result(js, job_id, result), job_id, COMPLETED),
    job_id, [status |-> "done"])

\* Mutant of job_completed: the result is stored and the status is not
\* updated.
job_completed_no_status(js, job_id, result) ==
  set_job_result(js, job_id, result)

\* process_job after the handler returned.
job_completed(js, job_id, result) ==
  update_job_status(set_job_result(js, job_id, result), job_id, COMPLETED)

\* Mutant of job_not_found: the lookup of a missing id raises KeyError,
\* outside process_job's try.
job_not_found_raises(js, job_id) ==
  [jobs |-> js, pc |-> "exited", ctx |-> None, invoked |-> FALSE]

\* process_job when the store has no job of the id: it logs and returns.
job_not_found(js, job_id) ==
  [jobs |-> js, pc |-> "get", ctx |-> None, invoked |-> FALSE]

\* process_job from its start to the handler's first sleep (or to its end,
\* if the handler is missing or raises first).
process_job(js, job_id) ==
  IF get_job(js, job_id) = None
    THEN job_not_found(js, job_id)
  ELSE
    LET job == js[job_id]
        js1 == update_job_status(js, job_id, RUNNING)
        handler == get_handler(job.type)
        plan == Handler(job.type, job.payload)
        raised == IF handler = None
                    THEN Some([kind |-> "ValueError",
                               msg |-> "No handler registered for job type: " \o job.type])
                  ELSE plan.error
    IN IF raised # None
         THEN IF except_Exception(raised[1].kind)
                THEN [jobs |-> job_failed(js1, job_id, raised[1]), pc |-> "get",
                      ctx |-> None, invoked |-> handler # None]
              ELSE [jobs |-> js1, pc |-> "exited", ctx |-> None,
                    invoked |-> handler # None]
       ELSE [jobs |-> add_results(js1, job_id, plan.segments[1]), pc |-> "sleep",
             ctx |-> Some([job_id |-> job_id, type |-> job.type,
                           payload |-> job.payload, seg |-> 1]),
             invoked |-> TRUE]

\* process_job from one sleep of the handler to the next, or to its return.
resume_job(js, ctx) ==
  LET plan == Handler(ctx.type, ctx.payload)
  IN IF ctx.seg < Len(plan.segments)
       THEN [jobs |-> add_results(js, ctx.job_id, plan.segments[ctx.seg + 1]),
             pc |-> "sleep", ctx |-> Some([ctx EXCEPT !.seg = @ + 1])]
     ELSE [jobs |-> job_completed(js, ctx.job_id, plan.result),
           pc |-> "get", ctx |-> None]

\* worker_loop from a point where the worker calls queue.get: it takes the
\* head and processes it, again and again, until it suspends: in queue.get
\* on an empty queue, or in a handler's sleep; or until an exception no
\* except clause catches ends the task.  `got` lists the ids it dequeued,
\* `invoked` those it called a handler for.
RECURSIVE worker_loop(_, _, _, _)
worker_loop(js, q, got, invoked) ==
  IF q = <<>>
    THEN [jobs |-> js, queue |-> q, pc |-> "get", ctx |-> None,
          got |-> got, invoked |-> invoked]
  ELSE
    LET g == get_next_job(q)
        got1 == Append(got, g.job_id)
        \* The loop after process_job ended with outcome r.
        after(r) ==
          LET invoked1 == IF r.invoked THEN Append(invoked, g.job_id) ELSE invoked
          IN IF r.pc = "get"
               THEN worker_loop(r.jobs, g.rest, got1, invoked1)
             ELSE [jobs |-> r.jobs, queue |-> g.rest, pc |-> r.pc, ctx |-> r.ctx,
                   got |-> got1, invoked |-> invoked1]
    IN CHOOSE out \in {after(r) : r \in {process_job(js, g.job_id)}} : TRUE

\* task.cancel() for the worker whose position is pc and whose handler call
\* is ctx: CancelledError is raised at the await it is suspended in.  Inside
\* a handler it passes through process_job unless its except clause catches
\* it; worker_loop logs and re-raises it.  A task that has ended stays as
\* it is.
cancel_worker(js, pc, ctx) ==
  IF pc = "sleep" /\ except_Exception("CancelledError")
    THEN [jobs |-> job_failed(js, ctx[1].job_id, [kind |-> "CancelledError", msg |-> ""]),
          pc |-> "get"]
  ELSE IF pc \in {"sleep", "get"}
    THEN [jobs |-> js, pc |-> "cancelled"]
  ELSE [jobs |-> js, pc |-> pc]

\* stop_workers for the workers 1..n: the store and the workers' positions
\* after every one of them was cancelled and awaited.
RECURSIVE stop_workers(_, _, _, _)
stop_workers(js, pcs, ctxs, n) ==
  IF n = 0 THEN [jobs |-> js, wpc |-> pcs]
  ELSE LET r == cancel_worker(js, pcs[n], ctxs[n])
       IN stop_workers(r.jobs, [pcs EXCEPT ![n] = r.pc], ctxs, n - 1)

\* Mutant of start_workers: a task is created for every worker, whatever
\* the count.
start_workers_all(worker_count) == [w \in Workers |-> "get"]

\* start_workers(worker_count): a worker_loop task for each of the first
\* worker_count workers; a new task waits in queue.get.
start_workers(worker_count) ==
  [w \in Workers |-> IF w <= worker_count THEN "get" ELSE "unstarted"]

\* stop_cleanup_task: cleanup_loop is cancelled in its sleep and awaited.
stop_cleanup_task(task) == IF task = "sleep" THEN "cancelled" ELSE task

\* The dequeues of one run, as log entries of worker w.
Dequeues(w, got) == [i \in 1..Len(got) |-> [worker |-> w, job_id |-> got[i]]]

\* ---------------------------------------------------------------- Init
\* JobManager(), before any request.
InitEngine ==
  /\ jobs = <<>>
  /\ queue = <<>>
  /\ now = 0
  /\ retention_seconds \in 0..MaxRetention
  /\ serving = TRUE
  /\ wjob = [w \in Workers |-> None]
  /\ callLog = <<>>
  /\ idCounter = 0
  /\ submitLog = <<>>
  /\ dequeueLog = <<>>
  /\ handlerLog = <<>>
  /\ evicted = {}
  /\ lastOp = [op |-> "init"]

\* Mutant of lifespan_startup: the workers and the sweeper are started
\* without a look at the worker count or the registered handlers.
lifespan_startup_unchecked(n, reg) ==
  [workers |-> start_workers(n), cleanup_task |-> "sleep"]

\* lifespan before its yield, with job_workers = n and the handlers reg
\* registered: the workers and the sweeper are started when n > 0 and a
\* handler is registered, and neither is otherwise.
lifespan_startup(n, reg) ==
  IF n > 0 /\ DOMAIN reg # {}
    THEN [workers |-> start_workers(n), cleanup_task |-> "sleep"]
  ELSE [workers |-> [w \in Workers |-> "unstarted"], cleanup_task |-> "none"]

\* The application started with job_workers = n and the handlers reg.
Started(n, reg) ==
  /\ job_workers = n
  /\ handlers = reg
  /\ \E r \in {lifespan_startup(n, reg)} :
       /\ wpc = r.workers
       /\ cleanup_task = r.cleanup_task

\* The application after startup: the handler modules are imported and
\* NumWorkers workers are configured.
Init ==
  /\ InitEngine
  /\ Started(NumWorkers, Imported)
  /\ keyLog = <<>>

\* ------------------------------------------------------------- actions
\* A submission of (job_type, payload) carrying idempotency key `key`:
\* submit_job, then the lookup get_job_response that formats the answer.
\* Neither suspends (the queue is unbounded, put returns at once), so no
\* other task runs in between.
Submit(job_type, payload, key) ==
  /\ serving
  /\ Len(submitLog) < MaxJobs
  /\ \E r \in {submit_job(job_type, payload)} :
        /\ jobs' = r.jobs
        /\ queue' = r.queue
        /\ idCounter' = idCounter + 1
        /\ submitLog' = Append(submitLog,
             [key |-> key, job_id |-> r.job_id,
              is_new |-> r.job_id \notin DOMAIN jobs,
              queued |-> Len(r.queue) - Len(queue),
              found |-> get_job_response(r.jobs, r.job_id) # None,
              status |-> IF get_job_response(r.jobs, r.job_id) # None
                           THEN get_job_response(r.jobs, r.job_id)[1].status
                         ELSE "none"])
        /\ lastOp' = [op |-> "submit"]
  /\ UNCHANGED <<now, retention_seconds, job_workers, cleanup_task, callLog, serving, handlers, keyLog, wpc, wjob, dequeueLog, handlerLog, evicted>>

\* A worker blocked in queue.get is resumed with the queue non-empty.
WorkerGet(w) ==
  /\ wpc[w] = "get"
  /\ queue # <<>>
  /\ \E r \in {worker_loop(jobs, queue, <<>>, <<>>)} :
        /\ queue' = r.queue
        /\ jobs' = r.jobs
        /\ wpc' = [wpc EXCEPT ![w] = r.pc]
        /\ wjob' = [wjob EXCEPT ![w] = r.ctx]
        /\ dequeueLog' = dequeueLog \o Dequeues(w, r.got)
        /\ handlerLog' = handlerLog \o r.invoked
        /\ lastOp' = [op |-> "get"]
  /\ UNCHANGED <<now, retention_seconds, job_workers, cleanup_task, callLog, serving, handlers, keyLog, idCounter, submitLog, evicted>>

\* A handler's sleep ends: the handler runs to its next sleep, or returns
\* and the worker goes round its loop.
WorkerResume(w) ==
  /\ wpc[w] = "sleep"
  /\ \E h \in {resume_job(jobs, wjob[w][1])} :
     \E r \in {IF h.pc = "get"
                 THEN worker_loop(h.jobs, queue, <<>>, <<>>)
               ELSE [jobs |-> h.jobs, queue |-> queue, pc |-> h.pc, ctx |-> h.ctx,
                     got |-> <<>>, invoked |-> <<>>]} :
        /\ queue' = r.queue
        /\ jobs' = r.jobs
        /\ wpc' = [wpc EXCEPT ![w] = r.pc]
        /\ wjob' = [wjob EXCEPT ![w] = r.ctx]
        /\ dequeueLog' = dequeueLog \o Dequeues(w, r.got)
        /\ handlerLog' = handlerLog \o r.invoked
        /\ lastOp' = [op |-> "resume"]
  /\ UNCHANGED <<now, retention_seconds, job_workers, cleanup_task, callLog, serving, handlers, keyLog, idCounter, submitLog, evicted>>

\* cleanup_loop: the interval has passed and cleanup_old_jobs runs.
Cleanup ==
  /\ cleanup_task = "sleep"
  /\ jobs' = cleanup_old_jobs(jobs, retention_seconds)
  /\ evicted' = evicted \cup (DOMAIN jobs \ DOMAIN jobs')
  /\ lastOp' = [op |-> "cleanup", removed |-> Cardinality(DOMAIN jobs \ DOMAIN jobs')]
  /\ UNCHANGED <<queue, now, retention_seconds, job_workers, cleanup_task, callLog, serving, handlers, keyLog, wpc, wjob, idCounter, submitLog,
                 dequeueLog, handlerLog>>

\* Time passes.
Tick ==
  /\ serving
  /\ now < MaxTime
  /\ now' = now + 1
  /\ lastOp' = [op |-> "tick"]
  /\ UNCHANGED <<jobs, queue, retention_seconds, job_workers, cleanup_task, callLog, serving, handlers, keyLog, wpc, wjob, idCounter, submitLog,
                 dequeueLog, handlerLog, evicted>>

\* Mutant of post_jobs: no validation of the body and no can_handle check.
post_jobs_unchecked(job_type) == 500

\* The status POST /jobs (the endpoint submit_job) answers a request of
\* job_type with (its fields being valid for that type, whatever its key):
\* 422 when the type is none of JobRequest, 400 unless can_handle(job_type).  Past that check the
\* endpoint calls job_manager.submit_job with three arguments, which the
\* method does not take: the call raises TypeError before the method runs,
\* a 500.
post_jobs(job_type) ==
  IF job_type \notin JobRequest THEN 422
  ELSE IF ~can_handle(job_type) THEN 400
  ELSE 500

\* A request to POST /jobs.  No way through the endpoint reaches the store
\* or the queue.
SubmitRequest(job_type) ==
  /\ serving
  /\ lastOp' = [op |-> "request", job_type |-> job_type, status |-> post_jobs(job_type)]
  /\ UNCHANGED <<jobs, queue, now, retention_seconds, job_workers, cleanup_task, callLog, serving, handlers, keyLog, wpc, wjob, idCounter,
                 submitLog, dequeueLog, handlerLog, evicted>>

\* lifespan after its yield: the sweeper is cancelled, then stop_workers
\* cancels every worker; here in one step, no worker running between the
\* two (StopCleanup and StopWorkers are the two steps apart).
Shutdown ==
  /\ serving
  /\ serving' = FALSE
  /\ \E r \in {stop_workers(jobs, wpc, wjob, NumWorkers)} :
        /\ jobs' = r.jobs
        /\ wpc' = r.wpc
  /\ wjob' = [w \in Workers |-> None]
  /\ cleanup_task' = stop_cleanup_task(cleanup_task)
  /\ lastOp' = [op |-> "shutdown"]
  /\ UNCHANGED <<queue, now, retention_seconds, job_workers, callLog, handlers, keyLog, idCounter, submitLog, dequeueLog,
                 handlerLog, evicted>>

\* The job engine while it runs: submissions to the manager, the workers,
\* the sweeper and the clock.
Engine ==
  \/ \E job_type \in JobTypes, key \in Keys :
       \E payload \in PayloadsOf(job_type) : Submit(job_type, payload, key)
  \/ \E w \in Workers : WorkerGet(w)
  \/ \E w \in Workers : WorkerResume(w)
  \/ Cleanup
  \/ Tick

Next ==
  \/ Engine
  \/ \E job_type \in JobTypes : SubmitRequest(job_type)
  \/ Shutdown

Spec == Init /\ [][Next]_vars

\* The engine with a sweeper that keeps running: cleanup_loop sweeps again
\* after every interval, for as long as it is not cancelled, and the clock
\* goes on.  (The submissions are echo requests, valid and not.)
SweepNext ==
  \/ \E payload \in PayloadsOf("echo") : Submit("echo", payload, None)
  \/ \E w \in Workers : WorkerGet(w)
  \/ \E w \in Workers : WorkerResume(w)
  \/ Cleanup
  \/ Tick

SweepSpec ==
  Init /\ [][SweepNext]_vars /\ WF_vars(Cleanup) /\ WF_vars(Tick)

\* The application started with job_workers = 1: one worker task.
InitOneWorker ==
  /\ InitEngine
  /\ Started(1, Imported)
  /\ keyLog = <<>>

OneWorkerSpec == InitOneWorker /\ [][Engine]_vars

\* lifespan after its yield, up to its first suspension: the sweeper, if
\* one was started, is cancelled and awaited; the workers may run
\* meanwhile.  With no sweeper (and so no workers) lifespan ends here.
StopCleanup ==
  /\ serving
  /\ serving' = FALSE
  /\ cleanup_task' = IF cleanup_task # "none" THEN stop_cleanup_task(cleanup_task)
                     ELSE cleanup_task
  /\ lastOp' = [op |-> "stop_cleanup"]
  /\ UNCHANGED <<jobs, queue, now, retention_seconds, job_workers, callLog, handlers, keyLog,
                 wpc, wjob, idCounter, submitLog, dequeueLog, handlerLog, evicted>>

\* lifespan after stop_cleanup_task returned: the workers, if any were
\* started, are cancelled and awaited by stop_workers.
StopWorkers ==
  /\ ~serving
  /\ cleanup_task = "cancelled"
  /\ \E w \in Workers : wpc[w] \in {"get", "sleep"}
  /\ \E r \in {stop_workers(jobs, wpc, wjob, NumWorkers)} :
        /\ jobs' = r.jobs
        /\ wpc' = r.wpc
  /\ wjob' = [w \in Workers |-> None]
  /\ lastOp' = [op |-> "stop_workers"]
  /\ UNCHANGED <<queue, now, retention_seconds, job_workers, cleanup_task, callLog, serving,
                 handlers, keyLog, idCounter, submitLog, dequeueLog, handlerLog, evicted>>

\* The application started under any configuration: job_workers is one of
\* 0..NumWorkers, and the handler modules are imported or there are none.
InitLifespan ==
  /\ InitEngine
  /\ \E n \in 0..NumWorkers, reg \in {[t \in {} |-> ""], Imported} : Started(n, reg)
  /\ keyLog = <<>>

LifespanNext ==
  \/ \E payload \in PayloadsOf("echo") : Submit("echo", payload, None)
  \/ \E w \in Workers : WorkerGet(w)
  \/ \E w \in Workers : WorkerResume(w)
  \/ Cleanup
  \/ Tick
  \/ StopCleanup
  \/ StopWorkers

LifespanSpec == InitLifespan /\ [][LifespanNext]_vars

\* ------------------------------------------------------ key resolution
\* What the Idempotency-Key header and the idempotency_key body field of
\* a request may hold: nothing, the empty string, a key.
KeyValues == {None, Some(""), Some("k1"), Some("k2")}

\* The endpoint determines the idempotency key of a request.
ResolveKey(header, body) ==
  /\ Len(keyLog) < MaxRequests
  /\ keyLog' = Append(keyLog, [header |-> header, body |-> body,
                               key |-> final_idempotency_key(header, body)])
  /\ UNCHANGED <<jobs, queue, now, retention_seconds, job_workers, cleanup_task, callLog, serving, handlers, wpc, wjob,
                 idCounter, submitLog, dequeueLog, handlerLog, evicted, lastOp>>

\* Requests with any header and body field.
KeySpec ==
  Init /\ [][\E header \in KeyValues, body \in KeyValues : ResolveKey(header, body)]_vars

\* ----------------------------------------------------- registration
\* The types and functions registered here.
RegisteredTypes == {"data_processing", "echo", "long_running", "email_send"}

HandlerFunctions == {"echo_handler", "send_email_handler", "other_handler"}

\* The process before any handler module is imported: HANDLERS is empty.
InitRegistry ==
  /\ InitEngine
  /\ handlers = [t \in {} |-> ""]
  /\ keyLog = <<>>
  /\ job_workers = NumWorkers
  /\ wpc = [w \in Workers |-> "unstarted"]
  /\ cleanup_task = "none"

\* @register_handler(job_type) applied to func.
Register(job_type, func) ==
  /\ \E r \in {register_handler(handlers, job_type, func)} :
        /\ handlers' = r.handlers
        /\ lastOp' = [op |-> "register", job_type |-> job_type, func |-> func,
                      raised |-> r.raised]
  /\ UNCHANGED <<jobs, queue, now, retention_seconds, job_workers, cleanup_task, callLog, serving, keyLog, wpc, wjob,
                 idCounter, submitLog, dequeueLog, handlerLog, evicted>>

\* Registrations, in any order and number.
RegistrySpec ==
  InitRegistry /\ [][\E job_type \in RegisteredTypes, func \in HandlerFunctions :
                        Register(job_type, func)]_vars

\* The engine that is never shut down (the endpoint's requests change
\* nothing of it).  Fairness: the event loop runs every task that is ready,
\* so a worker whose queue.get can return, or whose sleep is over, does run.
LiveSpec ==
  /\ Init
  /\ [][Engine]_vars
  /\ \A w \in Workers : WF_vars(WorkerGet(w)) /\ WF_vars(WorkerResume(w))

\* ------------------------------------------------------ manager calls
\* The JobManager called directly, as any holder of job_manager may: its
\* setters take any id and any value.
CallIds == 1..(MaxJobs + 1)
JobStatus == {PENDING, RUNNING, COMPLETED, FAILED}
CallResults == {"r1", "r2"}
CallErrors == {"e1", "e2"}

\* One call of a setter: `after` is the store it leaves.
Call(op, job_id, arg, after) ==
  /\ Len(callLog) < MaxCalls
  /\ jobs' = after
  /\ callLog' = Append(callLog, [op |-> op, job_id |-> job_id, arg |-> arg])
  /\ lastOp' = [op |-> op]
  /\ UNCHANGED <<queue, now, retention_seconds, job_workers, cleanup_task, serving, handlers,
                 keyLog, wpc, wjob, idCounter, submitLog, dequeueLog, handlerLog, evicted>>

UpdateJobStatus(job_id, status) ==
  Call("update_job_status", job_id, status, update_job_status(jobs, job_id, status))

SetJobResult(job_id, result) ==
  Call("set_job_result", job_id, result, set_job_result(jobs, job_id, result))

SetJobError(job_id, error) ==
  Call("set_job_error", job_id, error, set_job_error(jobs, job_id, error))

AddIntermediateResult(job_id, data) ==
  Call("add_intermediate_result", job_id, data, add_intermediate_result(jobs, job_id, data))

ManagerNext ==
  \/ \E payload \in PayloadsOf("echo") : Submit("echo", payload, None)
  \/ \E job_id \in CallIds, status \in JobStatus : UpdateJobStatus(job_id, status)
  \/ \E job_id \in CallIds, result \in CallResults : SetJobResult(job_id, result)
  \/ \E job_id \in CallIds, error \in CallErrors : SetJobError(job_id, error)
  \/ \E job_id \in CallIds : AddIntermediateResult(job_id, [progress |-> 50])

ManagerSpec == Init /\ [][ManagerNext]_vars

\* ---------------------------------------------------------- stale ids
\* The submissions a job may have been made with.
TypedPayloads ==
  UNION {{[type |-> t, payload |-> p] : p \in PayloadsOf(t)} : t \in JobTypes}

\* The workers are about to run worker_loop on a queue that holds the ids
\* 1..MaxJobs while the store holds jobs for only some of them: the inputs
\* of process_job for which get_job returns None, and those for which it
\* does not.
InitStale ==
  /\ now = 0
  /\ retention_seconds \in 0..MaxRetention
  /\ serving = TRUE
  /\ job_workers = NumWorkers
  /\ wpc = start_workers(job_workers)
  /\ cleanup_task = "sleep"
  /\ callLog = <<>>
  /\ wjob = [w \in Workers |-> None]
  /\ idCounter = MaxJobs
  /\ queue = [i \in 1..MaxJobs |-> i]
  /\ \E S \in SUBSET (1..MaxJobs) :
       /\ evicted = (1..MaxJobs) \ S
       /\ \E tp \in [S -> TypedPayloads] :
            jobs = [id \in S |-> Job(id, tp[id].type, tp[id].payload)]
  /\ submitLog = [i \in 1..MaxJobs |->
                    [key |-> None, job_id |-> i, is_new |-> TRUE, queued |-> 1,
                     found |-> TRUE, status |-> PENDING]]
  /\ dequeueLog = <<>>
  /\ handlerLog = <<>>
  /\ lastOp = [op |-> "init"]
  /\ handlers = Imported
  /\ keyLog = <<>>

StaleNext ==
  \/ \E w \in Workers : WorkerGet(w)
  \/ \E w \in Workers : WorkerResume(w)

StaleSpec == InitStale /\ [][StaleNext]_vars

\* ------------------------------------------------------------- helpers
Terminal(status) == status \in {COMPLETED, FAILED}

Submissions == 1..Len(submitLog)

\* How often x occurs in the sequence s.
Count(s, x) == Cardinality({i \in 1..Len(s) : s[i] = x})

DequeuedIds == [i \in 1..Len(dequeueLog) |-> dequeueLog[i].job_id]

\* Submission j repeats the key of the earlier submission i, whose job is
\* still in the store.
Replay(i, j) ==
  /\ i < j
  /\ submitLog[i].key # None
  /\ submitLog[j].key = submitLog[i].key
  /\ submitLog[i].job_id \in DOMAIN jobs

\* ------------------------------------------------------------------ C1
\* C1: submissions that share one idempotency key (the mapped job not
\* swept) all return the first one's job id, only the first is marked new,
\* and the later ones put nothing on the queue.
C1_OneJobPerKey ==
  \A i, j \in Submissions :
    Replay(i, j) =>
      /\ submitLog[j].job_id = submitLog[i].job_id
      /\ ~submitLog[j].is_new
      /\ submitLog[j].queued = 0

\* ------------------------------------------------------------------ C2
\* The subsequences of Pending, Running, Completed and of Pending,
\* Running, Failed that begin with the status a job is created in.
StatusPaths ==
  {<<PENDING>>, <<PENDING, RUNNING>>, <<PENDING, COMPLETED>>, <<PENDING, FAILED>>,
   <<PENDING, RUNNING, COMPLETED>>, <<PENDING, RUNNING, FAILED>>}

\* C2: the values a job's status has taken, in order, are a subsequence of
\* Pending, Running, Completed or of Pending, Running, Failed; in every
\* step a terminal job that stays in the store keeps its status.
C2_StatusMonotonic ==
  /\ [](\A id \in DOMAIN jobs : jobs[id].status_log \in StatusPaths)
  /\ [][\A id \in DOMAIN jobs \cap DOMAIN jobs' :
          Terminal(jobs[id].status) => jobs'[id].status = jobs[id].status]_vars

\* A job went Pending, Running, Completed, another Pending, Running,
\* Failed, and a sweep has run since and left both.
C2_Witness ==
  /\ \E id \in DOMAIN jobs : jobs[id].status_log = <<PENDING, RUNNING, COMPLETED>>
  /\ \E id \in DOMAIN jobs : jobs[id].status_log = <<PENDING, RUNNING, FAILED>>
  /\ lastOp.op = "cleanup"

C4_EnqueuedOnce ==
  /\ \A i \in Submissions : submitLog[i].is_new => submitLog[i].queued = 1
  /\ \A i, j \in Submissions :
       (i # j /\ submitLog[i].queued > 0 /\ submitLog[j].queued > 0)
         => submitLog[i].job_id # submitLog[j].job_id
  /\ \A i, j \in Submissions : Replay(i, j) => submitLog[j].queued = 0

\* ------------------------------------------------------------------ C5
\* The workers that are inside the handler of job id.
Holders(id) == {w \in Workers : wjob[w] # None /\ wjob[w][1].job_id = id}

\* C5: every id put on the queue is either still there or was dequeued,
\* by one worker, once; no job's handler is invoked twice; no two workers
\* are inside the handler of one job.
C5_OneWorkerPerJob ==
  /\ Len(dequeueLog) + Len(queue) = Len(submitLog)
  /\ \A id \in 1..idCounter :
       /\ Count(DequeuedIds, id) <= 1
       /\ Count(handlerLog, id) <= 1
       /\ Cardinality(Holders(id)) <= 1

\* Two workers are inside handlers at once, each on its own job.
C5_Witness ==
  \E v, w \in Workers :
    /\ v # w
    /\ wpc[v] = "sleep" /\ wpc[w] = "sleep"
    /\ wjob[v][1].job_id # wjob[w][1].job_id

\* ------------------------------------------------------------------ C6
\* The description process_job records for the two failures that occur:
\* an echo payload that does not validate, and a type with no handler.
ExpectedError(job) ==
  IF job.type = "echo"
    THEN "ValidationError: 1 validation error for EchoRequest"
  ELSE "ValueError: No handler registered for job type: unregistered_type"

\* The job's handling fails: its type has no handler, or its payload does
\* not validate.
Fails(job) ==
  \/ job.type = "unregistered_type"
  \/ job.type = "echo" /\ job.payload.message = None

\* C6: a dequeued job whose handling fails is Failed, with the failure's
\* kind and message as its error and no final_result; no worker was ended
\* by an exception: until the pool is shut down, the worker that took it is
\* in its loop (at queue.get, or inside the handler of a later job).
C6_FailureCaptured ==
  /\ \A w \in Workers : wpc[w] # "exited"
  /\ serving => \A w \in Workers : wpc[w] \in {"get", "sleep"}
  /\ \A i \in 1..Len(dequeueLog) :
       LET id == dequeueLog[i].job_id
       IN (id \in DOMAIN jobs /\ Fails(jobs[id])) =>
            /\ jobs[id].status = FAILED
            /\ jobs[id].error = Some(ExpectedError(jobs[id]))
            /\ jobs[id].final_result = None
            /\ jobs[id].completed_at # None
            /\ Holders(id) = {}

\* A worker took a job that failed, and the same worker took a later job
\* and is inside its handler.
C6_Witness ==
  \E i, k \in 1..Len(dequeueLog) :
    /\ i < k
    /\ dequeueLog[i].worker = dequeueLog[k].worker
    /\ dequeueLog[i].job_id \in DOMAIN jobs
    /\ jobs[dequeueLog[i].job_id].status = FAILED
    /\ jobs[dequeueLog[i].job_id].type = "echo"
    /\ wpc[dequeueLog[k].worker] = "sleep"
    /\ wjob[dequeueLog[k].worker][1].job_id = dequeueLog[k].job_id

\* ------------------------------------------------------------------ C7
\* The job completed longer ago than the retention.
Expired(job) ==
  /\ Terminal(job.status)
  /\ job.completed_at # None
  /\ now - job.completed_at[1] > retention_seconds

\* C7: a job leaves the store only if it is terminal and completed longer
\* ago than the retention (until then get_job finds it); and right after a
\* sweep no terminal job that completed longer ago than that is left.
C7_SweepByRetention ==
  /\ [][\A id \in DOMAIN jobs \ DOMAIN jobs' : Expired(jobs[id])]_vars
  /\ [](lastOp.op = "cleanup" => \A id \in DOMAIN jobs : ~Expired(jobs[id]))

\* A sweep has just run: it removed a job, and kept one that completed
\* earlier than now but within the retention.
C7_Witness ==
  /\ lastOp.op = "cleanup"
  /\ evicted # {}
  /\ \E id \in DOMAIN jobs :
       /\ Terminal(jobs[id].status)
       /\ jobs[id].completed_at[1] < now

\* ------------------------------------------------------------------ C8
\* C8: no step removes a job that is Pending or Running.
C8_ActiveNeverSwept ==
  [][\A id \in DOMAIN jobs :
       jobs[id].status \in {PENDING, RUNNING} => id \in DOMAIN jobs']_vars

\* A sweep with retention 0 has just run and left in the store a Pending
\* and a Running job, both created before now.
C8_Witness ==
  /\ lastOp.op = "cleanup"
  /\ retention_seconds = 0
  /\ \E id \in DOMAIN jobs : jobs[id].status = PENDING /\ jobs[id].created_at < now
  /\ \E id \in DOMAIN jobs : jobs[id].status = RUNNING /\ jobs[id].created_at < now

\* ------------------------------------------------------------------ C9
JobIds == 1..MaxJobs

ValidEcho(id) ==
  /\ id \in DOMAIN jobs
  /\ jobs[id].type = "echo"
  /\ jobs[id].payload.message # None

\* C9: under LiveSpec every job in the store leaves Pending and becomes
\* terminal, and an echo job with a message becomes Completed with that
\* message in its final_result; it never ends otherwise.
C9_JobsFinish ==
  /\ \A id \in JobIds :
       (id \in DOMAIN jobs) ~> (id \in DOMAIN jobs /\ jobs[id].status # PENDING)
  /\ \A id \in JobIds :
       (id \in DOMAIN jobs) ~> (id \in DOMAIN jobs /\ Terminal(jobs[id].status))
  /\ \A id \in JobIds :
       ValidEcho(id) ~>
         (/\ ValidEcho(id)
          /\ jobs[id].status = COMPLETED
          /\ jobs[id].final_result # None
          /\ jobs[id].final_result[1].message = jobs[id].payload.message[1])
  /\ [](\A id \in JobIds :
          (ValidEcho(id) /\ Terminal(jobs[id].status)) =>
            /\ jobs[id].status = COMPLETED
            /\ jobs[id].final_result[1].message = jobs[id].payload.message[1])

\* An echo job submitted with message "hi" is Completed with it.
C9_Witness ==
  \E id \in DOMAIN jobs :
    /\ ValidEcho(id)
    /\ jobs[id].status = COMPLETED
    /\ jobs[id].final_result[1].message = "hi"

\* ----------------------------------------------------------------- C10
\* C10: final_result is set only on a Completed job and error only on a
\* Failed one; so never both, and neither on a Pending or Running job.
C10_ResultXorError ==
  \A id \in DOMAIN jobs :
    /\ jobs[id].final_result # None => jobs[id].status = COMPLETED
    /\ jobs[id].error # None => jobs[id].status = FAILED
    /\ ~(jobs[id].final_result # None /\ jobs[id].error # None)
    /\ jobs[id].status \in {PENDING, RUNNING} =>
         jobs[id].final_result = None /\ jobs[id].error = None

\* The store holds a Completed job with a result and a Failed job with an error.
C10_Witness ==
  /\ \E id \in DOMAIN jobs :
       jobs[id].status = COMPLETED /\ jobs[id].final_result # None
  /\ \E id \in DOMAIN jobs :
       jobs[id].status = FAILED /\ jobs[id].error # None

\* ----------------------------------------------------------------- C11
IsPrefix(s, t) == Len(s) <= Len(t) /\ \A i \in 1..Len(s) : s[i] = t[i]

RECURSIVE Flatten(_)
Flatten(ss) == IF ss = <<>> THEN <<>> ELSE Head(ss) \o Flatten(Tail(ss))

\* What the handler of the job reports over its whole run, in order.
Reported(job) ==
  IF get_handler(job.type) = None THEN <<>>
  ELSE IF Handler(job.type, job.payload).error # None THEN <<>>
  ELSE Flatten(Handler(job.type, job.payload).segments)

ReportedSoFar(job) ==
  [i \in 1..Len(job.intermediate_results) |-> job.intermediate_results[i].data]

\* C11: in every step the intermediate_results of a job that stays in the
\* store extends its earlier value (the earlier value is a prefix of the
\* later); its entries are, in order, the first ones of what the handler
\* reports, and their timestamps never decrease.
C11_AppendOnly ==
  /\ [][\A id \in DOMAIN jobs \cap DOMAIN jobs' :
          IsPrefix(jobs[id].intermediate_results, jobs'[id].intermediate_results)]_vars
  /\ [](\A id \in DOMAIN jobs :
          /\ IsPrefix(ReportedSoFar(jobs[id]), Reported(jobs[id]))
          /\ \A i, k \in 1..Len(jobs[id].intermediate_results) :
               i < k => jobs[id].intermediate_results[i].timestamp
                          <= jobs[id].intermediate_results[k].timestamp)

\* A job has two intermediate results, reported at different times.
C11_Witness ==
  \E id \in DOMAIN jobs :
    /\ Len(jobs[id].intermediate_results) = 2
    /\ jobs[id].intermediate_results[1].timestamp
         < jobs[id].intermediate_results[2].timestamp
    /\ jobs[id].intermediate_results[1].data.stage = 1
    /\ jobs[id].intermediate_results[2].data.stage = 2

\* ----------------------------------------------------------------- C12
\* The ids in the order the submissions put them on the queue.
EnqueuedIds ==
  LET puts == SelectSeq(submitLog, LAMBDA e : e.queued > 0)
  IN [i \in 1..Len(puts) |-> puts[i].job_id]

\* C12: the ids dequeued so far, in the order they were dequeued, followed
\* by the queue, are the ids in the order they were enqueued; and of two
\* dequeued jobs the one dequeued first started no later than the other.
C12_FifoDequeue ==
  /\ DequeuedIds \o queue = EnqueuedIds
  /\ \A i, k \in 1..Len(dequeueLog) :
       (/\ i < k
        /\ dequeueLog[i].job_id \in DOMAIN jobs
        /\ dequeueLog[k].job_id \in DOMAIN jobs) =>
          /\ jobs[dequeueLog[i].job_id].started_at # None
          /\ jobs[dequeueLog[k].job_id].started_at # None
          /\ jobs[dequeueLog[i].job_id].started_at[1]
               <= jobs[dequeueLog[k].job_id].started_at[1]

\* Two jobs waited in the queue together and were then dequeued by two
\* workers, the one enqueued first being dequeued first.
C12_Witness ==
  /\ Len(dequeueLog) = 2
  /\ dequeueLog[1].worker # dequeueLog[2].worker
  /\ dequeueLog[1].job_id \in DOMAIN jobs
  /\ dequeueLog[2].job_id \in DOMAIN jobs
  /\ jobs[dequeueLog[2].job_id].created_at
       < jobs[dequeueLog[1].job_id].started_at[1]

\* ----------------------------------------------------------------- C13
\* The jobs whose handler some worker is inside.
InHandler == {wjob[w][1].job_id : w \in {v \in Workers : wjob[v] # None}}

\* C13: the shutdown step ends every worker task as cancelled and leaves
\* the store and the queue as they were: a job whose worker was inside its
\* handler is still Running with the same intermediate results, no
\* final_result and no error; and nothing changes the store or the queue
\* after the shutdown.
C13_ShutdownKeepsState ==
  /\ [][(serving /\ ~serving') =>
          /\ \A w \in Workers : wpc'[w] = "cancelled"
          /\ queue' = queue
          /\ DOMAIN jobs' = DOMAIN jobs
          /\ \A id \in DOMAIN jobs : jobs'[id] = jobs[id]
          /\ \A id \in InHandler :
               /\ jobs'[id].status = RUNNING
               /\ jobs'[id].final_result = None
               /\ jobs'[id].error = None]_vars
  /\ [][~serving => (jobs' = jobs /\ queue' = queue /\ ~serving')]_vars

\* The pool was shut down while a worker was inside a handler that had
\* reported two results, and another job was waiting in the queue.
C13_Witness ==
  /\ ~serving
  /\ lastOp.op = "shutdown"
  /\ \E id \in DOMAIN jobs :
       jobs[id].status = RUNNING /\ Len(jobs[id].intermediate_results) = 2
  /\ \E id \in DOMAIN jobs :
       jobs[id].status = PENDING /\ queue = <<id>>

\* ----------------------------------------------------------------- C14
\* C14: a request to the endpoint whose type has no registered handler is
\* answered with a client error (4xx), and the step leaves the store, the
\* queue, the id generator and the record of submissions as they were.
C14_UnknownTypeRejected ==
  /\ [](lastOp.op = "request" =>
          (lastOp.job_type \notin HANDLERS => lastOp.status \in 400..499))
  /\ [][(lastOp'.op = "request" /\ lastOp'.job_type \notin HANDLERS) =>
          /\ jobs' = jobs
          /\ queue' = queue
          /\ idCounter' = idCounter
          /\ submitLog' = submitLog]_vars

\* A request of the unregistered type was just rejected, with a job in the
\* store and an id in the queue.
C14_Witness ==
  /\ lastOp.op = "request"
  /\ lastOp.job_type = "unregistered_type"
  /\ lastOp.status \in 400..499
  /\ DOMAIN jobs # {}
  /\ queue # <<>>

\* ----------------------------------------------------------------- C17
\* C17: every type can_handle accepts has a handler for the worker,
\* list_handlers is exactly the set of types can_handle accepts, and so a
\* request whose type list_handlers names is not turned away as unknown.
C17_RegistriesAgree ==
  /\ \A t \in JobTypes \cup HANDLERS : can_handle(t) => get_handler(t) # None
  /\ list_handlers = {t \in JobTypes \cup HANDLERS : can_handle(t)}
  /\ (lastOp.op = "request" /\ lastOp.job_type \in list_handlers) => lastOp.status # 400

\* ----------------------------------------------------------------- C15
\* The key was used before, and every job submitted under it was evicted.
KeyFreed(key) ==
  /\ key # None
  /\ \E i \in Submissions : submitLog[i].key = key
  /\ \A i \in Submissions : submitLog[i].key = key => submitLog[i].job_id \in evicted

C16_TimestampsWriteOnce ==
  /\ [][\A id \in DOMAIN jobs \cap DOMAIN jobs' :
          /\ jobs'[id].created_at = jobs[id].created_at
          /\ jobs[id].started_at # None => jobs'[id].started_at = jobs[id].started_at
          /\ jobs[id].completed_at # None => jobs'[id].completed_at = jobs[id].completed_at
          /\ (jobs[id].started_at = None /\ jobs'[id].started_at # None) =>
               /\ jobs'[id].started_at = Some(now)
               /\ jobs[id].status = PENDING
               /\ jobs'[id].status_log[2] = RUNNING
          /\ (jobs[id].completed_at = None /\ jobs'[id].completed_at # None) =>
               /\ jobs'[id].completed_at = Some(now)
               /\ ~Terminal(jobs[id].status)
               /\ Terminal(jobs'[id].status)]_vars
  /\ [](\A id \in DOMAIN jobs :
          /\ jobs[id].started_at # None <=> jobs[id].status # PENDING
          /\ jobs[id].completed_at # None <=> Terminal(jobs[id].status)
          /\ jobs[id].completed_at # None => jobs[id].started_at # None)

\* A job was created, started later and completed later still.
C16_Witness ==
  \E id \in DOMAIN jobs :
    /\ jobs[id].status = COMPLETED
    /\ jobs[id].created_at < jobs[id].started_at[1]
    /\ jobs[id].started_at[1] < jobs[id].completed_at[1]

\* ----------------------------------------------------------------- C18
\* Worker w's handler ran from one sleep to its next one in this step:
\* all it did was report.
ReportsOnly(w) ==
  /\ wpc[w] = "sleep" /\ wpc'[w] = "sleep"
  /\ wjob'[w] # wjob[w]
  /\ wjob'[w][1].job_id = wjob[w][1].job_id

\* C18: a step in which a handler only reports appends one entry, stamped
\* with the current time, to the intermediate_results of the job the
\* context is bound to; that job's other fields, every other job, the
\* set of stored jobs, the queue and the record of submissions stay as
\* they were.
C18_ReportOnlyAppends ==
  [][\A w \in Workers :
       ReportsOnly(w) =>
         LET id == wjob[w][1].job_id
             old == jobs[id].intermediate_results
             new == jobs'[id].intermediate_results
         IN /\ DOMAIN jobs' = DOMAIN jobs
            /\ \A other \in DOMAIN jobs \ {id} : jobs'[other] = jobs[other]
            /\ Len(new) = Len(old) + 1
            /\ new[Len(new)].timestamp = now
            /\ jobs'[id] = [jobs[id] EXCEPT !.intermediate_results = Append(old, new[Len(new)])]
            /\ queue' = queue
            /\ submitLog' = submitLog
            /\ evicted' = evicted]_vars

\* A handler has just reported its second result while another job was
\* in the store and in the queue.
C18_Witness ==
  /\ lastOp.op = "resume"
  /\ \E w \in Workers :
       /\ wpc[w] = "sleep"
       /\ wjob[w][1].seg = 2
       /\ Len(jobs[wjob[w][1].job_id].intermediate_results) = 2
       /\ \E other \in DOMAIN jobs :
            other # wjob[w][1].job_id /\ queue = <<other>>

\* ----------------------------------------------------------------- C19
\* The jobs the worker that runs in this step processes: the one whose
\* handler it was inside, and those it dequeues.
Processed ==
  {wjob[w][1].job_id : w \in {v \in Workers : wjob[v] # None /\ wjob'[v] # wjob[v]}}
    \cup {dequeueLog'[i].job_id : i \in (Len(dequeueLog) + 1)..Len(dequeueLog')}

LiveWorkers == {w \in Workers : wpc[w] \in {"get", "sleep"}}

\* C19: a step of a worker leaves the record of every job it does not
\* process as it was, removes no job, leaves the position of every other
\* worker as it was, and ends no worker: the live workers are the same
\* after it, also when the handler of a job it processes fails.
C19_FailureIsLocal ==
  [][lastOp'.op \in {"get", "resume"} =>
       /\ DOMAIN jobs' = DOMAIN jobs
       /\ \A b \in DOMAIN jobs \ Processed : jobs'[b] = jobs[b]
       /\ LiveWorkers' = LiveWorkers
       /\ Cardinality({w \in Workers : wpc'[w] # wpc[w] \/ wjob'[w] # wjob[w]}) <= 1]_vars

\* A worker has just run, a job it took is Failed, and a job that started
\* earlier is still Running in the hands of another worker; both workers
\* are alive.
C19_Witness ==
  /\ lastOp.op = "get"
  /\ LiveWorkers = Workers
  /\ \E a, b \in DOMAIN jobs :
       /\ jobs[a].status = FAILED
       /\ jobs[b].status = RUNNING
       /\ jobs[b].started_at[1] < jobs[a].completed_at[1]
       /\ Holders(b) # {}

\* ----------------------------------------------------------------- C20
\* The key was used by an earlier submission whose job is in the store.
KeyMapped(key) ==
  /\ key # None
  /\ \E i \in Submissions : submitLog[i].key = key /\ submitLog[i].job_id \in DOMAIN jobs

\* C20: a submission under a key that is mapped to a stored job changes
\* nothing: every stored job keeps all its fields, no job is added (the
\* job count is the same) and the queue is as it was.
C20_ReplayMutatesNothing ==
  [][(Len(submitLog') = Len(submitLog) + 1
        /\ KeyMapped(submitLog'[Len(submitLog')].key)) =>
       /\ \A id \in DOMAIN jobs : id \in DOMAIN jobs' /\ jobs'[id] = jobs[id]
       /\ Cardinality(DOMAIN jobs') = Cardinality(DOMAIN jobs)
       /\ queue' = queue]_vars

\* ----------------------------------------------------------------- C22
\* C22: a registration for a type that is already registered raises
\* DuplicateHandler and leaves the handler registered before in place; no
\* registration removes an entry.
C22_DuplicateRejected ==
  [][lastOp'.op = "register" =>
       /\ DOMAIN handlers \subseteq DOMAIN handlers'
       /\ lastOp'.job_type \in DOMAIN handlers =>
            /\ lastOp'.raised = Some("DuplicateHandler")
            /\ handlers'[lastOp'.job_type] = handlers[lastOp'.job_type]]_vars

\* ----------------------------------------------------------------- C21
\* The ids queried: those that can be issued, and one that never is.
QueryIds == 1..(MaxJobs + 1)

\* C21: the status query for an id that is not in the store answers 404,
\* and for two such ids, one never issued and one evicted, the answers
\* differ in nothing but the id they name; the query for an id in the
\* store answers 200 with every field of the job's record.
C21_QueryOutcome ==
  /\ \A id \in QueryIds \ DOMAIN jobs :
       /\ get_job_status(jobs, id).status = 404
       /\ \A other \in QueryIds \ DOMAIN jobs :
            [get_job_status(jobs, id) EXCEPT !.detail.job_id = other]
              = get_job_status(jobs, other)
  /\ \A id \in DOMAIN jobs :
       LET r == get_job_status(jobs, id)
       IN /\ r.status = 200
          /\ r.body.id = id
          /\ r.body.type = jobs[id].type
          /\ r.body.status = jobs[id].status
          /\ r.body.created_at = jobs[id].created_at
          /\ r.body.started_at = jobs[id].started_at
          /\ r.body.completed_at = jobs[id].completed_at
          /\ Len(r.body.intermediate_results) = Len(jobs[id].intermediate_results)
          /\ \A i \in 1..Len(r.body.intermediate_results) :
               /\ r.body.intermediate_results[i].timestamp
                    = jobs[id].intermediate_results[i].timestamp
               /\ r.body.intermediate_results[i].data
                    = jobs[id].intermediate_results[i].data
          /\ r.body.final_result = jobs[id].final_result
          /\ r.body.error = jobs[id].error

\* One id was evicted, one was never issued, and the store holds a
\* completed job with intermediate results.
C21_Witness ==
  /\ \E id \in QueryIds : id \in evicted /\ id \notin DOMAIN jobs
  /\ \E id \in QueryIds : id > idCounter
  /\ \E id \in DOMAIN jobs :
       /\ jobs[id].status = COMPLETED
       /\ jobs[id].intermediate_results # <<>>
       /\ get_job_status(jobs, id).body.final_result = jobs[id].final_result

\* ----------------------------------------------------------------- C23
\* C23: the key chosen for a request is the header's value when the
\* request has the header (whatever the body field holds), else the body
\* field's value, and none when it has neither.
C23_HeaderFirst ==
  \A i \in 1..Len(keyLog) :
    /\ keyLog[i].header # None => keyLog[i].key = keyLog[i].header
    /\ keyLog[i].header = None => keyLog[i].key = keyLog[i].body

\* ----------------------------------------------------------------- C24
\* C24: the response to a submission carries the replay indicator exactly
\* when the submission replays a key: never on a submission that creates a
\* job, and always on one whose key an earlier submission mapped to a job
\* that is in the store.
C24_ReplayIndicator ==
  /\ \A j \in Submissions :
       x_idempotent_replay(submitLog[j].is_new, submitLog[j].key) =>
         /\ submitLog[j].key # None
         /\ submitLog[j].queued = 0
  /\ \A i, j \in Submissions :
       Replay(i, j) => x_idempotent_replay(submitLog[j].is_new, submitLog[j].key)

\* ----------------------------------------------------------------- C25
Statuses == {PENDING, RUNNING, COMPLETED, FAILED}

\* Pending is before Running, Running before Completed and Failed.
StatusRank(status) ==
  CASE status = PENDING -> 0
    [] status = RUNNING -> 1
    [] OTHER -> 2

\* C25: update_job_status called on a stored job with a status that is
\* earlier than the job's, or on a job that is terminal, leaves the job's
\* status, started_at and completed_at as they are.
C25_SetStatusMonotonic ==
  \A id \in DOMAIN jobs, status \in Statuses :
    (StatusRank(status) < StatusRank(jobs[id].status) \/ Terminal(jobs[id].status)) =>
      LET after == update_job_status(jobs, id, status)[id]
      IN /\ after.status = jobs[id].status
         /\ after.started_at = jobs[id].started_at
         /\ after.completed_at = jobs[id].completed_at

\* ----------------------------------------------------------------- C26
\* C26: every id in the queue is the id of a stored job that is Pending;
\* and every id a worker dequeues is the id of a stored job, which the
\* worker takes out of Pending in the same step (process_job never finds
\* the job missing).
C26_QueuedArePending ==
  /\ [](\A i \in 1..Len(queue) :
          queue[i] \in DOMAIN jobs /\ jobs[queue[i]].status = PENDING)
  /\ [][\A i \in (Len(dequeueLog) + 1)..Len(dequeueLog') :
          /\ dequeueLog'[i].job_id \in DOMAIN jobs
          /\ dequeueLog'[i].job_id \in DOMAIN jobs'
          /\ jobs[dequeueLog'[i].job_id].status = PENDING
          /\ jobs'[dequeueLog'[i].job_id].status # PENDING]_vars

\* A sweep with retention 0 has just evicted a job and left in the queue
\* the id of a job created before now.
C26_Witness ==
  /\ lastOp.op = "cleanup"
  /\ retention_seconds = 0
  /\ evicted # {}
  /\ queue # <<>>
  /\ jobs[queue[1]].created_at < now

\* ----------------------------------------------------------------- C27
\* C27: every intermediate result was appended while its job was Running;
\* a Pending job has none, and in every step a terminal job keeps its
\* intermediate_results.
C27_ReportedWhileRunning ==
  /\ [](\A id \in DOMAIN jobs :
          /\ \A i \in 1..Len(jobs[id].intermediate_results) :
               jobs[id].intermediate_results[i].written_in = RUNNING
          /\ jobs[id].status = PENDING => jobs[id].intermediate_results = <<>>)
  /\ [][\A id \in DOMAIN jobs \cap DOMAIN jobs' :
          Terminal(jobs[id].status) =>
            jobs'[id].intermediate_results = jobs[id].intermediate_results]_vars

\* A job completed earlier than now with two intermediate results, and
\* another job is Pending.
C27_Witness ==
  /\ \E id \in DOMAIN jobs :
       /\ jobs[id].status = COMPLETED
       /\ Len(jobs[id].intermediate_results) = 2
       /\ jobs[id].completed_at[1] < now
  /\ \E id \in DOMAIN jobs : jobs[id].status = PENDING

\* ----------------------------------------------------------------- C28
\* C28: in every state the queue size is the number of Pending jobs: the
\* ids in the queue are, each once, the ids of the Pending jobs.
C28_QueueDepthIsPending ==
  /\ get_queue_size(queue) = get_job_count_by_status(jobs, PENDING)
  /\ {queue[i] : i \in 1..Len(queue)}
       = {id \in DOMAIN jobs : jobs[id].status = PENDING}
  /\ get_job_count_by_status(jobs, PENDING) + get_job_count_by_status(jobs, RUNNING)
       + get_job_count_by_status(jobs, COMPLETED) + get_job_count_by_status(jobs, FAILED)
       = get_job_count(jobs)

\* A worker has just dequeued one of two queued jobs: one job is Running
\* and the other is still queued.
C28_Witness ==
  /\ lastOp.op = "get"
  /\ get_queue_size(queue) = 1
  /\ get_job_count_by_status(jobs, PENDING) = 1
  /\ get_job_count_by_status(jobs, RUNNING) = 1

\* ----------------------------------------------------------------- C29
\* The workers that are suspended inside a handler.
Busy == {w \in Workers : wpc[w] = "sleep"}

\* C29: a worker holds one job at a time.  While no worker was cancelled,
\* the Running jobs are the jobs the workers inside a handler hold, one
\* each, so they are at most as many as those workers and at most
\* NumWorkers; and of two jobs the same worker dequeued, the earlier one is
\* terminal (or was swept, which only happens to terminal jobs).
C29_OneJobPerWorker ==
  /\ serving =>
       /\ {id \in DOMAIN jobs : jobs[id].status = RUNNING} = InHandler
       /\ get_job_count_by_status(jobs, RUNNING) = Cardinality(Busy)
       /\ get_job_count_by_status(jobs, RUNNING) <= NumWorkers
       /\ \A w \in Workers : wjob[w] # None <=> w \in Busy
  /\ \A i, k \in 1..Len(dequeueLog) :
       i < k /\ dequeueLog[i].worker = dequeueLog[k].worker =>
         \/ dequeueLog[i].job_id \in evicted
         \/ /\ dequeueLog[i].job_id \in DOMAIN jobs
            /\ Terminal(jobs[dequeueLog[i].job_id].status)

\* One worker dequeued two jobs: the first is Completed and the worker is
\* inside the handler of the second, which is Running.
C29_Witness ==
  /\ serving
  /\ \E w \in Busy : \E i, k \in 1..Len(dequeueLog) :
       /\ i < k
       /\ dequeueLog[i].worker = w /\ dequeueLog[k].worker = w
       /\ dequeueLog[i].job_id \in DOMAIN jobs
       /\ jobs[dequeueLog[i].job_id].status = COMPLETED
       /\ wjob[w][1].job_id = dequeueLog[k].job_id
       /\ jobs[dequeueLog[k].job_id].status = RUNNING

\* ----------------------------------------------------------------- C30
\* The dequeues of jobs whose type has no registered handler.
NoHandler ==
  {i \in 1..Len(dequeueLog) :
     /\ dequeueLog[i].job_id \in DOMAIN jobs
     /\ get_handler(jobs[dequeueLog[i].job_id].type) = None}

\* C30: a dequeued job whose type has no handler is Failed, with the
\* lookup's error recorded, completed_at set and no handler called, and the
\* worker that took it has not ended; in the run that took it the worker
\* went on to the next queue item: the run ended inside a later job's
\* handler or with the queue empty.
C30_MissingHandlerFailsJobOnly ==
  /\ [](\A i \in NoHandler :
         LET job == jobs[dequeueLog[i].job_id]
         IN /\ job.status = FAILED
            /\ job.error = Some("ValueError: No handler registered for job type: "
                                  \o job.type)
            /\ job.completed_at # None
            /\ job.final_result = None
            /\ \A h \in 1..Len(handlerLog) : handlerLog[h] # job.id
            /\ wpc[dequeueLog[i].worker] # "exited"
            /\ serving => wpc[dequeueLog[i].worker] \in {"get", "sleep"})
  /\ [][\A i \in NoHandler' :
          i > Len(dequeueLog) =>
            LET w == dequeueLog'[i].worker
            IN \/ i < Len(dequeueLog') /\ dequeueLog'[i + 1].worker = w
               \/ i = Len(dequeueLog') /\ queue' = <<>> /\ wpc'[w] = "get"]_vars

\* A worker took a job whose type has no handler, which is Failed, then
\* took the next queue item and is inside its handler.
C30_Witness ==
  \E i \in NoHandler : \E k \in 1..Len(dequeueLog) :
    /\ i < k
    /\ dequeueLog[k].worker = dequeueLog[i].worker
    /\ jobs[dequeueLog[i].job_id].status = FAILED
    /\ wpc[dequeueLog[k].worker] = "sleep"
    /\ wjob[dequeueLog[k].worker][1].job_id = dequeueLog[k].job_id
    /\ jobs[dequeueLog[k].job_id].status = RUNNING

\* ----------------------------------------------------------------- C31
\* C31: when a worker dequeues an id the store has no job for, that step
\* creates no job and changes no job but those the worker goes on to
\* process, calls no handler for the id, does not end the worker, and the
\* worker goes on to the next queue item: the run ends inside a later job's
\* handler or waiting on the empty queue.
C31_MissingJobSkipped ==
  [][lastOp'.op \in {"get", "resume"} =>
       \A i \in (Len(dequeueLog) + 1)..Len(dequeueLog') :
         dequeueLog'[i].job_id \notin DOMAIN jobs =>
           LET w == dequeueLog'[i].worker
           IN /\ DOMAIN jobs' = DOMAIN jobs
              /\ \A b \in DOMAIN jobs \ Processed : jobs'[b] = jobs[b]
              /\ \A h \in 1..Len(handlerLog') : handlerLog'[h] # dequeueLog'[i].job_id
              /\ wpc'[w] \in {"get", "sleep"}
              /\ \/ i < Len(dequeueLog') /\ dequeueLog'[i + 1].worker = w
                 \/ i = Len(dequeueLog') /\ queue' = <<>> /\ wpc'[w] = "get"]_vars

\* A worker dequeued an id that has no job, then the next id, and is
\* inside the handler of that job.
C31_Witness ==
  \E i, k \in 1..Len(dequeueLog) :
    /\ k = i + 1
    /\ dequeueLog[k].worker = dequeueLog[i].worker
    /\ dequeueLog[i].job_id \notin DOMAIN jobs
    /\ dequeueLog[i].job_id \in evicted
    /\ wpc[dequeueLog[k].worker] = "sleep"
    /\ wjob[dequeueLog[k].worker][1].job_id = dequeueLog[k].job_id
    /\ jobs[dequeueLog[k].job_id].status = RUNNING

\* ----------------------------------------------------------------- C32
\* The call a step has just made on the JobManager's setters, if any.
Called == Len(callLog') = Len(callLog) + 1
TheCall == callLog'[Len(callLog')]

\* C32: update_job_status, set_job_result, set_job_error and
\* add_intermediate_result called with an id the store does not hold change
\* nothing: no job is created, and the store, the queue and the record of
\* submissions and ids are as before.  (The manager keeps no idempotency
\* index that could change.)
C32_UnknownIdIsNoOp ==
  [][(Called /\ TheCall.job_id \notin DOMAIN jobs) =>
       /\ jobs' = jobs
       /\ queue' = queue
       /\ idCounter' = idCounter
       /\ submitLog' = submitLog
       /\ evicted' = evicted]_vars

\* With a job stored and queued, two setters were called with ids the
\* store does not hold.
C32_Witness ==
  /\ Len(callLog) = 2
  /\ callLog[1].op = "update_job_status"
  /\ callLog[2].op = "set_job_error"
  /\ callLog[1].job_id \notin DOMAIN jobs
  /\ callLog[2].job_id \notin DOMAIN jobs
  /\ DOMAIN jobs # {}
  /\ queue # <<>>

\* ----------------------------------------------------------------- C39
\* C39: after set_job_result or set_job_error on a stored job, also one
\* whose field was set before, the field holds the value of this call, all
\* the job's other fields (status and timestamps among them) are as before,
\* every other job is as before, and no job is added or removed.
C39_LastWriteWins ==
  [][(Called /\ TheCall.op \in {"set_job_result", "set_job_error"}
             /\ TheCall.job_id \in DOMAIN jobs) =>
       LET id == TheCall.job_id
       IN /\ DOMAIN jobs' = DOMAIN jobs
          /\ jobs'[id] = IF TheCall.op = "set_job_result"
                           THEN [jobs[id] EXCEPT !.final_result = Some(TheCall.arg)]
                         ELSE [jobs[id] EXCEPT !.error = Some(TheCall.arg)]
          /\ \A b \in DOMAIN jobs \ {id} : jobs'[b] = jobs[b]
          /\ queue' = queue]_vars

\* set_job_result was called twice on one stored job, with two values, and
\* the job holds the second, beside another job.
C39_Witness ==
  /\ Len(callLog) = 2
  /\ callLog[1].op = "set_job_result"
  /\ callLog[2].op = "set_job_result"
  /\ callLog[1].job_id = callLog[2].job_id
  /\ callLog[1].arg # callLog[2].arg
  /\ callLog[2].job_id \in DOMAIN jobs
  /\ jobs[callLog[2].job_id].final_result = Some(callLog[2].arg)
  /\ Cardinality(DOMAIN jobs) = 2

\* ----------------------------------------------------------------- C33
\* C33: a sweep leaves the queue as it was, the same ids in the same
\* order, adds no job, and leaves every job it does not remove as it was in
\* every field.
C33_SweepFrame ==
  [][lastOp'.op = "cleanup" =>
       /\ queue' = queue
       /\ DOMAIN jobs' \subseteq DOMAIN jobs
       /\ \A id \in DOMAIN jobs' : jobs'[id] = jobs[id]
       /\ wpc' = wpc /\ wjob' = wjob]_vars

\* A sweep has just removed one job, while another job is queued and
\* stays in the store.
C33_Witness ==
  /\ lastOp.op = "cleanup"
  /\ lastOp.removed = 1
  /\ Len(queue) = 1
  /\ queue[1] \in DOMAIN jobs

\* ----------------------------------------------------------------- C37
\* C37: a sweep is one step: the state after it, the first one any other
\* task can see, lacks every job the sweep was to remove, all of them
\* at once; and the step that cancels the sweeper finds it in its interval
\* wait and removes nothing.
C37_SweepAtomic ==
  /\ [][lastOp'.op = "cleanup" =>
          /\ DOMAIN jobs' = DOMAIN jobs \ jobs_to_remove(jobs, retention_seconds)
          /\ jobs_to_remove(jobs', retention_seconds) = {}
          /\ lastOp'.removed = Cardinality(jobs_to_remove(jobs, retention_seconds))
          /\ cleanup_task' = "sleep"]_vars
  /\ [][cleanup_task' # cleanup_task =>
          /\ cleanup_task = "sleep" /\ cleanup_task' = "cancelled"
          /\ DOMAIN jobs' = DOMAIN jobs
          /\ evicted' = evicted]_vars

\* One sweep has just removed two jobs.
C37_Witness ==
  /\ lastOp.op = "cleanup"
  /\ lastOp.removed = 2
  /\ Cardinality(evicted) >= 2

C35_IndexFollowsJobs ==
  /\ \A key \in DOMAIN idempotency_index : idempotency_index[key] \in DOMAIN jobs
  /\ \A i \in Submissions :
       (submitLog[i].key # None /\ submitLog[i].job_id \in DOMAIN jobs) =>
         /\ submitLog[i].key[1] \in DOMAIN idempotency_index
         /\ idempotency_index[submitLog[i].key[1]] \in DOMAIN jobs

\* ----------------------------------------------------------------- C36
\* C36: while the sweeper keeps sweeping and time advances, a job that is
\* terminal is eventually removed from the store.  (The clock of a run
\* stops at MaxTime: the jobs meant are those whose retention ends before
\* that.)
C36_TerminalEventuallySwept ==
  \A id \in JobIds :
    (/\ id \in DOMAIN jobs
     /\ Terminal(jobs[id].status)
     /\ jobs[id].completed_at # None
     /\ jobs[id].completed_at[1] + retention_seconds < MaxTime)
      ~> (id \notin DOMAIN jobs)

\* Every job submitted has been removed: a sweep has just left the store
\* empty.
C36_Witness ==
  /\ lastOp.op = "cleanup"
  /\ lastOp.removed >= 1
  /\ evicted = JobIds
  /\ DOMAIN jobs = {}

\* ----------------------------------------------------------------- C38
\* The job has reached a terminal status (and may have been swept since).
Finished(id) ==
  \/ id \in evicted
  \/ id \in DOMAIN jobs /\ Terminal(jobs[id].status)

\* C38: with one worker, jobs finish in the order they were submitted: in
\* every state, if a job has finished then so has every job submitted
\* before it, not later than it.  (With a second worker started this
\* fails: a job submitted and dequeued later finishes first.)
C38_OneWorkerFinishesInOrder ==
  \A i, j \in Submissions :
    (i < j /\ Finished(submitLog[j].job_id)) =>
      /\ Finished(submitLog[i].job_id)
      /\ (submitLog[i].job_id \in DOMAIN jobs /\ submitLog[j].job_id \in DOMAIN jobs) =>
           jobs[submitLog[i].job_id].completed_at[1]
             <= jobs[submitLog[j].job_id].completed_at[1]

\* The one worker ran a long job and then a short one submitted while the
\* long one was running, and both are Completed.
C38_Witness ==
  /\ Len(submitLog) = 2
  /\ \A i \in 1..2 : submitLog[i].job_id \in DOMAIN jobs
                        /\ jobs[submitLog[i].job_id].status = COMPLETED
  /\ jobs[submitLog[1].job_id].type = "long_running"
  /\ jobs[submitLog[2].job_id].type = "echo"
  /\ jobs[submitLog[2].job_id].created_at >= jobs[submitLog[1].job_id].started_at[1]
  /\ \A i \in 1..Len(dequeueLog) : dequeueLog[i].worker = 1
  /\ \A w \in Workers \ {1} : wpc[w] = "unstarted"

\* ----------------------------------------------------------------- C40
NoneStarted == \A w \in Workers : wpc[w] = "unstarted"

\* C40: the workers and the sweeper are started together or not at all.
\* With job_workers = 0 or no handler registered neither is started, and
\* then every job accepted is Pending in every later state, queued and
\* never dequeued nor evicted, also after shutdown.  Otherwise the first
\* job_workers workers and the sweeper are started.  A worker is
\* cancelled only once the sweeper is, and only what was started is ever
\* cancelled.
C40_StartedTogether ==
  /\ NoneStarted <=> cleanup_task = "none"
  /\ (job_workers = 0 \/ DOMAIN handlers = {}) =>
       /\ NoneStarted
       /\ cleanup_task = "none"
       /\ \A id \in DOMAIN jobs : jobs[id].status = PENDING
       /\ DOMAIN jobs = {submitLog[i].job_id : i \in Submissions}
       /\ Len(queue) = Len(submitLog)
       /\ dequeueLog = <<>>
       /\ evicted = {}
  /\ (job_workers > 0 /\ DOMAIN handlers # {}) =>
       /\ cleanup_task \in {"sleep", "cancelled"}
       /\ \A w \in Workers : w <= job_workers <=> wpc[w] # "unstarted"
  /\ (\E w \in Workers : wpc[w] = "cancelled") => cleanup_task = "cancelled"
  /\ cleanup_task = "cancelled" => ~serving

\* Workers are configured and no handler is registered: nothing was
\* started, the jobs accepted are still Pending after the retention has
\* passed, and the application has shut down.
C40_Witness ==
  /\ job_workers = NumWorkers
  /\ DOMAIN handlers = {}
  /\ ~serving
  /\ Len(submitLog) >= 1
  /\ \A id \in DOMAIN jobs : jobs[id].status = PENDING /\ now - jobs[id].created_at > retention_seconds
  /\ Len(queue) = Len(submitLog)

====
